---- MODULE Spec2Model ----
(***************************************************************************)
(* Model of NatlinkSource/natlink_p.c, the MIDL generated proxy/stub       *)
(* translation unit of the COM interface IDgnAppSupport.                   *)
(*                                                                         *)
(* The state is the set of static tables the file defines (format strings, *)
(* format string offset table, proxy and stub vtables, stub descriptor,    *)
(* the four registry lists and natlink_ProxyFileInfo) together with the    *)
(* callers' index objects that _natlink_IID_Lookup writes through pIndex.  *)
(* The operations are the lookup (the one function the file defines) and   *)
(* the two ways the tables are addressed: a call through a proxy vtable    *)
(* slot and a dispatch through the stub's -3 shifted dispatch table.       *)
(***************************************************************************)
EXTENDS Integers, Sequences, FiniteSets, TLC

(***************************************************************************)
(* Bounds of the model.                                                    *)
(***************************************************************************)
NumThreads == 2
MaxPrev == 5
MaxOrdinal == 8

Threads == 1..NumThreads
\* values the caller's index object may hold before a lookup: the -1 a
\* caller may preset, the 0 an earlier match left, and a stale value
PrevIndexValues == {-1, 0, MaxPrev}
\* method ordinals a caller may present, in and out of range
Ordinals == -1..MaxOrdinal

(***************************************************************************)
(* Machine representation.                                                 *)
(***************************************************************************)
NULL == "NULL"
WildPointer == "WildPointer"

Reverse(s) == [i \in 1..Len(s) |-> s[Len(s) + 1 - i]]

\* (unsigned short) x
UShort(x) == x % 65536

\* The 16 bytes of a GUID object in memory on the little-endian x86 target:
\* Data1, Data2 and Data3 are stored least significant byte first, Data4 is
\* a byte array.  The arguments are the bytes in the order they are written
\* in the hexadecimal literals.
GuidBytes(d1, d2, d3, d4) == Reverse(d1) \o Reverse(d2) \o Reverse(d3) \o d4

IID_IUnknown_Value ==
    GuidBytes(<<0, 0, 0, 0>>, <<0, 0>>, <<0, 0>>,
              <<192, 0, 0, 0, 0, 0, 0, 70>>)

IID_IDispatch_Value ==
    GuidBytes(<<0, 2, 4, 0>>, <<0, 0>>, <<0, 0>>,
              <<192, 0, 0, 0, 0, 0, 0, 70>>)

IID_IDgnAppSupport_Value ==
    GuidBytes(<<202, 221, 23, 160>>, <<72, 42>>, <<72, 76>>,
              <<148, 81, 122, 203, 166, 241, 39, 47>>)

\* &IID_xxx: the value a pointer to an interface identity refers to
IIDValue(p) ==
    CASE p = "IID_IDgnAppSupport" -> IID_IDgnAppSupport_Value
      [] p = "IID_IDispatch"      -> IID_IDispatch_Value
      [] p = "IID_IUnknown"       -> IID_IUnknown_Value

\* identities a caller may request: the registered one, the two ancestors
\* and two values that differ from the registered one in a single byte
\* (the last byte of Data4, the low byte of Data1)
NearMissLast == [IID_IDgnAppSupport_Value EXCEPT ![16] = 46]
NearMissFirst == [IID_IDgnAppSupport_Value EXCEPT ![1] = 161]
RequestedIIDs ==
    {IID_IDgnAppSupport_Value, IID_IDispatch_Value, IID_IUnknown_Value,
     NearMissLast, NearMissFirst}

(***************************************************************************)
(* The static tables, as the file initializes them.                        *)
(***************************************************************************)
TYPE_FORMAT_STRING_SIZE == 3
PROC_FORMAT_STRING_SIZE == 1

\* unsigned char Format[size] = { init }: elements without an initializer
\* are zero
CArray(size, init) ==
    [i \in 1..size |-> IF i <= Len(init) THEN init[i] ELSE 0]

\* NdrFcShort(s): a 16 bit value laid out as two bytes
NdrFcShort(s) == <<s % 256, (s \div 256) % 256>>

natlink__MIDL_ProcFormatString ==
    [Pad |-> 0, Format |-> CArray(PROC_FORMAT_STRING_SIZE, <<0>>)]

natlink__MIDL_TypeFormatString ==
    [Pad    |-> 0,
     Format |-> CArray(TYPE_FORMAT_STRING_SIZE, NdrFcShort(0) \o <<0>>)]

IDgnAppSupport_FormatStringOffsetTable ==
    <<UShort(-1), UShort(-1), UShort(-1), UShort(-1), 0>>

\* &array[off]: a pointer into (or, for a negative off, in front of) an array
ShiftedPointer(array, off) == [base |-> array, off |-> off]

IDgnAppSupport_ProxyInfo ==
    [pStubDesc          |-> "Object_StubDesc",
     ProcFormatString   |-> "natlink__MIDL_ProcFormatString",
     FormatStringOffset |->
         ShiftedPointer("IDgnAppSupport_FormatStringOffsetTable", -3),
     pTransferSyntax    |-> NULL,
     nCount             |-> 0,
     pSyntaxInfo        |-> NULL]

IDgnAppSupport_ServerInfo ==
    [pStubDesc       |-> "Object_StubDesc",
     DispatchTable   |-> NULL,
     ProcString      |-> "natlink__MIDL_ProcFormatString",
     FmtStringOffset |->
         ShiftedPointer("IDgnAppSupport_FormatStringOffsetTable", -3),
     ThunkTable      |-> NULL,
     pTransferSyntax |-> NULL,
     nCount          |-> 0,
     pSyntaxInfo     |-> NULL]

\* a proxy vtable with the AddRef and Release slots exchanged
_IDgnAppSupportProxyVtbl_swapped ==
    [header |-> [pStublessProxyInfo |-> NULL,
                 piid               |-> "IID_IDgnAppSupport"],
     Vtbl   |-> <<"IUnknown_QueryInterface_Proxy",
                  "IUnknown_Release_Proxy",
                  "IUnknown_AddRef_Proxy",
                  NULL, NULL, NULL, NULL>>]

_IDgnAppSupportProxyVtbl ==
    [header |-> [pStublessProxyInfo |-> NULL,
                 piid               |-> "IID_IDgnAppSupport"],
     Vtbl   |-> <<"IUnknown_QueryInterface_Proxy",
                  "IUnknown_AddRef_Proxy",
                  "IUnknown_Release_Proxy",
                  NULL, NULL, NULL, NULL>>]

STUB_FORWARDING_FUNCTION == "NdrStubForwardingFunction"

\* a dispatch table one entry short
IDgnAppSupport_table_short ==
    <<STUB_FORWARDING_FUNCTION, STUB_FORWARDING_FUNCTION,
      STUB_FORWARDING_FUNCTION>>

IDgnAppSupport_table ==
    <<STUB_FORWARDING_FUNCTION, STUB_FORWARDING_FUNCTION,
      STUB_FORWARDING_FUNCTION, STUB_FORWARDING_FUNCTION>>

\* a stub vtable header that declares one method more than the table holds
_IDgnAppSupportStubVtbl_count8 ==
    [header |-> [piid               |-> "IID_IDgnAppSupport",
                 pServerInfo        |-> "IDgnAppSupport_ServerInfo",
                 DispatchTableCount |-> 8,
                 pDispatchTable     |->
                     ShiftedPointer("IDgnAppSupport_table", -3)],
     Vtbl   |-> "CStdStubBuffer_DELEGATING_METHODS"]

\* a stub vtable header that names the base interface
_IDgnAppSupportStubVtbl_base ==
    [header |-> [piid               |-> "IID_IDispatch",
                 pServerInfo        |-> "IDgnAppSupport_ServerInfo",
                 DispatchTableCount |-> 7,
                 pDispatchTable     |->
                     ShiftedPointer("IDgnAppSupport_table", -3)],
     Vtbl   |-> "CStdStubBuffer_DELEGATING_METHODS"]

_IDgnAppSupportStubVtbl ==
    [header |-> [piid               |-> "IID_IDgnAppSupport",
                 pServerInfo        |-> "IDgnAppSupport_ServerInfo",
                 DispatchTableCount |-> 7,
                 pDispatchTable     |->
                     ShiftedPointer("IDgnAppSupport_table", -3)],
     Vtbl   |-> "CStdStubBuffer_DELEGATING_METHODS"]

Object_StubDesc ==
    [pfnAllocate  |-> "NdrOleAllocate",
     pfnFree      |-> "NdrOleFree",
     pFormatTypes |-> "natlink__MIDL_TypeFormatString",
     fCheckBounds |-> 1,
     Version      |-> 393217,      \* 0x60001
     MIDLVersion  |-> 134283886,   \* 0x801026e
     mFlags       |-> 1]

_natlink_ProxyVtblList == <<"_IDgnAppSupportProxyVtbl", NULL>>

_natlink_StubVtblList == <<"_IDgnAppSupportStubVtbl", NULL>>

_natlink_InterfaceNamesList == <<"IDgnAppSupport", NULL>>

_natlink_BaseIIDList == <<"IID_IDispatch", NULL>>

natlink_ProxyFileInfo ==
    [pProxyVtblList   |-> "_natlink_ProxyVtblList",
     pStubVtblList    |-> "_natlink_StubVtblList",
     pNamesArray      |-> "_natlink_InterfaceNamesList",
     pDelegatedIIDs   |-> "_natlink_BaseIIDList",
     pIIDLookupRtn    |-> "_natlink_IID_Lookup",
     TableSize        |-> 1,
     TableVersion     |-> 2,
     pAsyncIIDLookup  |-> NULL,
     Filler1          |-> 0,
     Filler2          |-> 0,
     Filler3          |-> 0]

\* the data segment of the translation unit: every object by its name
StaticTables ==
    [natlink__MIDL_ProcFormatString |-> natlink__MIDL_ProcFormatString,
     natlink__MIDL_TypeFormatString |-> natlink__MIDL_TypeFormatString,
     IDgnAppSupport_FormatStringOffsetTable |->
         IDgnAppSupport_FormatStringOffsetTable,
     IDgnAppSupport_ProxyInfo  |-> IDgnAppSupport_ProxyInfo,
     IDgnAppSupport_ServerInfo |-> IDgnAppSupport_ServerInfo,
     _IDgnAppSupportProxyVtbl  |-> _IDgnAppSupportProxyVtbl,
     IDgnAppSupport_table      |-> IDgnAppSupport_table,
     _IDgnAppSupportStubVtbl   |-> _IDgnAppSupportStubVtbl,
     Object_StubDesc           |-> Object_StubDesc,
     _natlink_ProxyVtblList    |-> _natlink_ProxyVtblList,
     _natlink_StubVtblList     |-> _natlink_StubVtblList,
     _natlink_InterfaceNamesList |-> _natlink_InterfaceNamesList,
     _natlink_BaseIIDList      |-> _natlink_BaseIIDList,
     natlink_ProxyFileInfo     |-> natlink_ProxyFileInfo]

\* array[i] with C's zero based index; a read outside the array has no
\* defined value
InBounds(array, i) == 0 <= i /\ i < Len(array)
Elem(array, i) == array[i + 1]

(***************************************************************************)
(* _natlink_IID_Lookup                                                     *)
(***************************************************************************)
Sign(x) == IF x < 0 THEN -1 ELSE IF x > 0 THEN 1 ELSE 0

\* memcmp(a, b, n): the sign of the difference of the first pair of bytes
\* that differ among the first n, 0 when there is none
RECURSIVE memcmpFrom(_, _, _, _)
memcmpFrom(a, b, n, i) ==
    IF i > n THEN 0
    ELSE IF a[i] # b[i] THEN Sign(a[i] - b[i])
    ELSE memcmpFrom(a, b, n, i + 1)

\* a comparison that stops one byte short of n
memcmp_short(a, b, n) == memcmpFrom(a, b, n - 1, 1)

memcmp(a, b, n) == memcmpFrom(a, b, n, 1)

\* IID_GENERIC_CHECK_IID(_natlink, pIID, n):
\*   memcmp(pIID, _natlink_ProxyVtblList[n]->header.piid, 16)
IID_GENERIC_CHECK_IID(tbl, pIID, n) ==
    memcmp(pIID,
           IIDValue(tbl[Elem(tbl._natlink_ProxyVtblList, n)].header.piid),
           16)

_natlink_CHECK_IID(tbl, pIID, n) == IID_GENERIC_CHECK_IID(tbl, pIID, n)

\* a lookup that stores a -1 sentinel through pIndex when nothing matches
_natlink_IID_Lookup_sentinel(tbl, pIID, index) ==
    IF _natlink_CHECK_IID(tbl, pIID, 0) = 0
    THEN [ret |-> 1, index |-> 0, wrote |-> TRUE, tables |-> tbl]
    ELSE [ret |-> 0, index |-> -1, wrote |-> TRUE, tables |-> tbl]

\* a lookup that takes an index object already holding 0 for a match
_natlink_IID_Lookup_stale(tbl, pIID, index) ==
    IF _natlink_CHECK_IID(tbl, pIID, 0) = 0 \/ index = 0
    THEN [ret |-> 1, index |-> 0, wrote |-> TRUE, tables |-> tbl]
    ELSE [ret |-> 0, index |-> index, wrote |-> FALSE, tables |-> tbl]

\* a lookup that records the match in the file info instead of *pIndex
_natlink_IID_Lookup_store(tbl, pIID, index) ==
    IF _natlink_CHECK_IID(tbl, pIID, 0) = 0
    THEN [ret |-> 1, index |-> 0, wrote |-> TRUE,
          tables |-> [tbl EXCEPT !.natlink_ProxyFileInfo.Filler1 = 1]]
    ELSE [ret |-> 0, index |-> index, wrote |-> FALSE, tables |-> tbl]

\* pIID is the identity pIID points to, index the value *pIndex holds when
\* the function is entered.  The result gives the return value, the value
\* *pIndex holds on return, whether the function stored to *pIndex, and the
\* tables on return.
_natlink_IID_Lookup(tbl, pIID, index) ==
    IF _natlink_CHECK_IID(tbl, pIID, 0) = 0
    THEN [ret |-> 1, index |-> 0, wrote |-> TRUE, tables |-> tbl]
    ELSE [ret |-> 0, index |-> index, wrote |-> FALSE, tables |-> tbl]

(***************************************************************************)
(* A call through a slot of the proxy vtable.                              *)
(***************************************************************************)
\* (void *)(INT_PTR) -1: the slot of a method the interpreter marshals
STUBLESS_SLOT == "StublessSlot"

\* the values a read of slot k of _IDgnAppSupportProxyVtbl.Vtbl can give
ProxySlotValues(tbl, k) ==
    LET Vtbl == tbl._IDgnAppSupportProxyVtbl.Vtbl
    IN  IF InBounds(Vtbl, k) THEN {Elem(Vtbl, k)}
        ELSE {NULL, WildPointer}

\* p[k] for a shifted pointer p: the values the read can give, and the
\* index into the backing array
ShiftedIndex(p, k) == p.off + k

ShiftedRead(tbl, p, k) ==
    LET array == tbl[p.base]
        i == ShiftedIndex(p, k)
    IN  IF InBounds(array, i) THEN {Elem(array, i)} ELSE {NULL, WildPointer}

\* what a call through a slot holding the given value does
ProxyInvoke(tbl, k, slot) ==
    LET header == tbl._IDgnAppSupportProxyVtbl.header
    IN  CASE slot = NULL ->
                [kind |-> "NullSlot", target |-> NULL, format |-> {}]
          [] slot = WildPointer ->
                [kind |-> "Wild", target |-> WildPointer, format |-> {}]
          [] slot = STUBLESS_SLOT ->
                IF header.pStublessProxyInfo = NULL
                THEN [kind |-> "Wild", target |-> NULL, format |-> {}]
                ELSE [kind   |-> "Marshal",
                      target |-> "ObjectStublessClient",
                      format |-> ShiftedRead(tbl,
                          tbl[header.pStublessProxyInfo].FormatStringOffset,
                          k)]
          [] OTHER ->
                [kind |-> "Forward", target |-> slot, format |-> {}]

(***************************************************************************)
(* A dispatch through the stub vtable header.                              *)
(***************************************************************************)
INTERPRETED_STUB == "NdrStubCall2"

StubInvoke(tbl, k, entry) ==
    LET header == tbl._IDgnAppSupportStubVtbl.header
        i == ShiftedIndex(header.pDispatchTable, k)
        readEntry == {<<header.pDispatchTable.base, i>>}
        FmtStringOffset == tbl[header.pServerInfo].FmtStringOffset
    IN  CASE entry = STUB_FORWARDING_FUNCTION ->
                [kind |-> "Forward", reads |-> readEntry,
                 deserialized |-> FALSE]
          [] entry = INTERPRETED_STUB ->
                [kind |-> "Interpret",
                 reads |-> readEntry \cup
                     {<<FmtStringOffset.base,
                        ShiftedIndex(FmtStringOffset, k)>>},
                 deserialized |-> TRUE]
          [] OTHER ->
                [kind |-> "Wild", reads |-> readEntry,
                 deserialized |-> FALSE]

\* the outcomes of a dispatch of method ordinal k by the Invoke method the
\* stub vtable takes from CStdStubBuffer_DELEGATING_METHODS: an ordinal
\* outside the DispatchTableCount the header declares is rejected, any other
\* is looked up in pDispatchTable.  For ordinals 0..2 the lookup reads in
\* front of IDgnAppSupport_table, where the file defines no value.
StubDispatchOutcomes(tbl, k) ==
    LET header == tbl._IDgnAppSupportStubVtbl.header
    IN  IF k < 0 \/ k >= header.DispatchTableCount
        THEN {[kind |-> "OrdinalOutOfRange", reads |-> {},
               deserialized |-> FALSE]}
        ELSE {StubInvoke(tbl, k, e) :
                  e \in ShiftedRead(tbl, header.pDispatchTable, k)}

(***************************************************************************)
(* State and actions.                                                      *)
(***************************************************************************)
VARIABLES
    tables,     \* the static tables
    pIndexVal,  \* per thread: the int object it passes as pIndex
    last,       \* the operation performed last, its inputs and its result
    earlier     \* a lookup performed earlier and kept for comparison

vars == <<tables, pIndexVal, last, earlier>>

NoOp == [t |-> 0, op |-> "none"]
NoLookup == [iid |-> <<>>, between |-> FALSE]

\* what a lookup lets its caller observe: the return value and the store to
\* *pIndex, if any
Observation(r) ==
    [ret |-> r.ret, wrote |-> r.wrote,
     stored |-> IF r.wrote THEN r.index ELSE 0]

Init ==
    /\ tables = StaticTables
    /\ pIndexVal \in [Threads -> PrevIndexValues]
    /\ last = NoOp
    /\ earlier = NoLookup

\* thread t sets its index object to prev and calls
\* _natlink_IID_Lookup(&iid, &index).  The lookup is either kept as the
\* earlier lookup later ones are compared with, or noted as one that ran
\* after the earlier lookup.
Lookup(t) ==
    \E iid \in RequestedIIDs, prev \in PrevIndexValues :
        LET r == _natlink_IID_Lookup(tables, iid, prev)
        IN  /\ tables' = r.tables
            /\ pIndexVal' = [pIndexVal EXCEPT ![t] = r.index]
            /\ last' = [t |-> t, op |-> "Lookup", iid |-> iid,
                        prev |-> prev, ret |-> r.ret, obs |-> Observation(r)]
            /\ \/ earlier' = [iid |-> iid, between |-> FALSE,
                              obs |-> Observation(r)]
               \/ /\ earlier # NoLookup
                  /\ earlier' = [earlier EXCEPT !.between =
                                     @ \/ iid # earlier.iid]

\* thread t calls method ordinal k through the proxy vtable
ProxyCall(t) ==
    \E k \in Ordinals :
        \E slot \in ProxySlotValues(tables, k) :
            /\ last' = [t |-> t, op |-> "ProxyCall", k |-> k,
                        slot |-> slot,
                        res |-> ProxyInvoke(tables, k, slot)]
            /\ UNCHANGED <<tables, pIndexVal, earlier>>

\* thread t dispatches method ordinal k through the stub
StubDispatch(t) ==
    \E k \in Ordinals :
        \E res \in StubDispatchOutcomes(tables, k) :
            /\ last' = [t |-> t, op |-> "StubDispatch", k |-> k,
                        res |-> res]
            /\ UNCHANGED <<tables, pIndexVal, earlier>>

Next ==
    \E t \in Threads :
        \/ Lookup(t)
        \/ ProxyCall(t)
        \/ StubDispatch(t)

Spec == Init /\ [][Next]_vars

(***************************************************************************)
(* Properties.                                                             *)
(***************************************************************************)
IsLookup == last.op = "Lookup"
IsProxyCall == last.op = "ProxyCall"
IsStubDispatch == last.op = "StubDispatch"
Registered == IID_IDgnAppSupport_Value

\* C1: a lookup returns 1, with the index set to 0, exactly when the
\* requested identity is IID_IDgnAppSupport; for any other identity it
\* returns 0.
C1_LookupSucceedsIffRegistered ==
    IsLookup =>
        /\ (last.ret = 1) <=> (last.iid = Registered)
        /\ (last.ret = 1) => pIndexVal[last.t] = 0
        /\ (last.ret # 1) => last.ret = 0

C1_Witness ==
    /\ IsLookup
    /\ last.iid = Registered
    /\ last.prev = MaxPrev
    /\ last.ret = 1
    /\ pIndexVal[last.t] = 0

\* C2 as stated: a lookup of an identity that matches nothing returns 0 and
\* leaves -1 in the index object, whatever it held before.
C2_NotFoundStoresSentinel ==
    (IsLookup /\ last.iid # Registered) =>
        /\ last.ret = 0
        /\ pIndexVal[last.t] = -1

\* C2 amended: a lookup of an identity that matches nothing returns 0 and
\* does not store to the index object, which keeps the value it held before
\* the call.
C2_NotFoundLeavesIndex ==
    (IsLookup /\ last.iid # Registered) =>
        /\ last.ret = 0
        /\ ~last.obs.wrote
        /\ pIndexVal[last.t] = last.prev

C2_Witness ==
    /\ IsLookup
    /\ last.iid = IID_IDispatch_Value
    /\ last.prev = MaxPrev
    /\ last.ret = 0
    /\ pIndexVal[last.t] = MaxPrev

C4_ProxyStubAgree ==
    LET Vtbl == tables._IDgnAppSupportProxyVtbl.Vtbl
        header == tables._IDgnAppSupportStubVtbl.header
        shifted == {header.pDispatchTable,
                    tables[header.pServerInfo].FmtStringOffset,
                    tables.IDgnAppSupport_ProxyInfo.FormatStringOffset}
    IN  /\ Len(Vtbl) = 7
        /\ header.DispatchTableCount = 7
        /\ \A k \in Ordinals :
               InBounds(Vtbl, k) <=> (0 <= k /\ k < header.DispatchTableCount)
        /\ \A k \in 3..6 : \A p \in shifted :
               InBounds(tables[p.base], ShiftedIndex(p, k))

C4_Witness ==
    /\ IsStubDispatch
    /\ last.k = 6
    /\ last.res.kind = "Forward"
    /\ last.res.reads = {<<"IDgnAppSupport_table", 3>>}

BaseProxy(k) ==
    CASE k = 0 -> "IUnknown_QueryInterface_Proxy"
      [] k = 1 -> "IUnknown_AddRef_Proxy"
      [] k = 2 -> "IUnknown_Release_Proxy"

\* C5 as stated: a proxy call of ordinal 0..2 forwards to the generic base
\* proxy function; a proxy call of ordinal 3..6 fails or does nothing, so it
\* neither marshals nor calls through an unset slot.
C5_DispatchSlotsFailOrNoOp ==
    IsProxyCall =>
        /\ (0 <= last.k /\ last.k <= 2) =>
               /\ last.res.kind = "Forward"
               /\ last.res.target = BaseProxy(last.k)
        /\ (3 <= last.k /\ last.k <= 6) =>
               last.res.kind \in {"Fail", "NoOp"}

\* C5 amended: a proxy call of ordinal 0..2 forwards to the generic base
\* proxy function; slots 3..6 are unset in the vtable the file declares, so
\* the file gives them neither a failing nor an empty method, and a call of
\* ordinal 3..6 never marshals: the header names no stubless proxy info and
\* the format string offsets of 3..6 are the 0xFFFF marker.
C5_DispatchSlotsUnset ==
    IsProxyCall =>
        /\ (0 <= last.k /\ last.k <= 2) =>
               /\ last.res.kind = "Forward"
               /\ last.res.target = BaseProxy(last.k)
        /\ (3 <= last.k /\ last.k <= 6) =>
               /\ last.slot = NULL
               /\ last.res.kind = "NullSlot"
               /\ last.res.format = {}
               /\ tables._IDgnAppSupportProxyVtbl.header.pStublessProxyInfo
                      = NULL
               /\ ShiftedRead(tables,
                      tables.IDgnAppSupport_ProxyInfo.FormatStringOffset,
                      last.k) = {65535}

C5_Witness ==
    /\ IsProxyCall
    /\ last.k = 3
    /\ last.res.kind = "NullSlot"

\* C8: a lookup gives the same return value and the same store to the index
\* object as any earlier lookup of the same identity, whatever lookups ran
\* in between, and a lookup changes no table and no index object but its
\* caller's.
C8_SameAsEarlier ==
    (IsLookup /\ earlier # NoLookup /\ earlier.iid = last.iid) =>
        last.obs = earlier.obs

C8_LookupStep ==
    (last'.op = "Lookup") =>
        /\ tables' = tables
        /\ \A u \in Threads \ {last'.t} : pIndexVal'[u] = pIndexVal[u]

C9_TablesImmutable == [][tables' = tables]_vars

C9_Witness ==
    /\ IsStubDispatch
    /\ last.t = NumThreads
    /\ earlier # NoLookup
    /\ earlier.between
    /\ tables = StaticTables

\* C10: each of the four lists of natlink_ProxyFileInfo holds TableSize = 1
\* entries and a null terminator, and the index a successful lookup stores
\* is below TableSize and selects the proxy vtable and the stub vtable of
\* the requested identity, whose base is IID_IDispatch.
C10_RegistryConsistent ==
    LET info == tables.natlink_ProxyFileInfo
        lists == {tables[info.pProxyVtblList], tables[info.pStubVtblList],
                  tables[info.pNamesArray], tables[info.pDelegatedIIDs]}
    IN  /\ info.TableSize = 1
        /\ \A list \in lists :
               /\ Len(list) = info.TableSize + 1
               /\ \A i \in 0..(info.TableSize - 1) : Elem(list, i) # NULL
               /\ Elem(list, info.TableSize) = NULL
        /\ (IsLookup /\ last.ret = 1) =>
               LET i == pIndexVal[last.t]
               IN  /\ 0 <= i /\ i < info.TableSize
                   /\ IIDValue(tables[Elem(tables[info.pProxyVtblList], i)]
                                   .header.piid) = last.iid
                   /\ IIDValue(tables[Elem(tables[info.pStubVtblList], i)]
                                   .header.piid) = last.iid
                   /\ last.iid = IID_IDgnAppSupport_Value
                   /\ IIDValue(Elem(tables[info.pDelegatedIIDs], i))
                          = IID_IDispatch_Value

C10_Witness ==
    /\ IsLookup
    /\ last.ret = 1
    /\ last.prev = -1
    /\ last.t = NumThreads

====
